---------------------------- MODULE Spec2Model ----------------------------
(***************************************************************************)
(* Share-link service (src/src/file-sharing.ts), the shared-file download  *)
(* route (src/src/share-routes.ts) and the connection discipline of the    *)
(* three remote storage clients (SFTP and FTPS O2SwitchStorage,            *)
(* AdminStorageClient), their path resolution, search and upload, and the  *)
(* catalogue data files (src/catalogue-routes.js).                         *)
(*                                                                         *)
(* Every `await` of the source is a step boundary: a handler is cut into   *)
(* one action per store or network round trip, and the code between two    *)
(* awaits runs atomically (single-threaded event loop).                    *)
(*                                                                         *)
(* An optional value (T | null | undefined) is a sequence of length 0 or 1:*)
(* None for null/undefined, Some(v) for v.                                 *)
(***************************************************************************)
EXTENDS Integers, Sequences, FiniteSets, TLC

\* ------------------------------------------------------------------ bounds
MaxClock == 2
MaxCount == 3

\* --------------------------------------------------------------- constants
TokenBytes == 16
TokenLength == 32

None == <<>>
Some(v) == <<v>>
IsSome(o) == o # <<>>
Val(o) == o[1]

\* ------------------------------------------------------------ input domains
Users == {"u1", "u2"}
Entropy == {0, 1}
SuppliedPasswords == {None, Some(""), Some("pw"), Some("bad")}
Salts == {"s1"}

\* ---------------------------------------------------------- token, password
HexDigits == <<"0", "1", "2", "3", "4", "5", "6", "7",
               "8", "9", "a", "b", "c", "d", "e", "f">>

\* crypto.randomBytes(n): n bytes; the entropy source is the input e.
randomBytes(n, e) == [i \in 1..n |-> (e * 151 + i * 37) % 256]

\* Buffer.toString('hex'): two lower-case hex digits per byte.
toHex(bytes) ==
  [i \in 1..(2 * Len(bytes)) |->
     IF i % 2 = 1 THEN HexDigits[(bytes[(i + 1) \div 2] \div 16) + 1]
                  ELSE HexDigits[(bytes[i \div 2] % 16) + 1]]

\* Mutant: half as many random bytes are drawn.
generateShareToken_short(e) == toHex(randomBytes(TokenBytes \div 2, e))

\* generateShareToken(): 16 random bytes in hex.
generateShareToken(e) == toHex(randomBytes(TokenBytes, e))

\* bcrypt.hash(password, saltRounds): a salted one-way digest, kept abstract
\* as the pair (salt, password) under a tag; bcrypt.compare recomputes it
\* with the salt stored in the hash.
hashPassword(password, salt) == [salt |-> salt, digest |-> <<"bcrypt", salt, password>>]

\* Mutant: the promise of bcrypt.compare tested without await (always truthy).
verifyPassword_unawaited(password, hash) == TRUE

verifyPassword(password, hash) == hashPassword(password, hash.salt) = hash

\* JavaScript truthiness of the optional request fields.
TruthyNumber(o) == IsSome(o) /\ Val(o) # 0
TruthyString(o) == IsSome(o) /\ Val(o) # ""

\* ------------------------------------------------------------------- store
\* .eq('token', token)
SelectByToken(tbl, token) == {r \in tbl : r.token = token}

\* .single(): data is the row when exactly one row matches and the request
\* went through; otherwise data is null and error is set.
single(rows, storeFails) ==
  IF ~storeFails /\ Cardinality(rows) = 1
    THEN [data |-> Some(CHOOSE r \in rows : TRUE), error |-> FALSE]
    ELSE [data |-> None, error |-> TRUE]

Expired(row, t) == IsSome(row.expires_at) /\ Val(row.expires_at) < t

\* Mutant: the error of the lookup is thrown instead of mapped to null.
getShareLink_throws(tbl, token, storeFails) ==
  LET res == single(SelectByToken(tbl, token), storeFails)
  IN  IF res.error THEN [threw |-> TRUE, link |-> None]
                   ELSE [threw |-> FALSE, link |-> res.data]

\* getShareLink: the row, or null on any error of the lookup. threw marks
\* an exception leaving the function.
getShareLink(tbl, token, storeFails) ==
  LET res == single(SelectByToken(tbl, token), storeFails)
  IN  IF res.error THEN [threw |-> FALSE, link |-> None]
                   ELSE [threw |-> FALSE, link |-> res.data]

Invalid(reason) == [threw |-> FALSE, valid |-> FALSE, reason |-> reason, link |-> None]

\* Mutant: the expiry check is made before the active-flag check.
validateShareLink_expiryFirst(tbl, t, token, password, storeFails) ==
  LET got == getShareLink(tbl, token, storeFails)
  IN  IF got.threw
        THEN [threw |-> TRUE, valid |-> FALSE, reason |-> "", link |-> None]
      ELSE IF got.link = None
        THEN Invalid("Link not found")
      ELSE LET link == Val(got.link)
      IN  IF IsSome(link.expires_at) /\ Val(link.expires_at) < t
            THEN Invalid("Link has expired")
          ELSE IF ~link.is_active
            THEN Invalid("Link has been deactivated")
          ELSE IF IsSome(link.max_downloads)
                  /\ link.download_count >= Val(link.max_downloads)
            THEN Invalid("Download limit reached")
          ELSE IF IsSome(link.password_hash) /\ ~TruthyString(password)
            THEN Invalid("Password required")
          ELSE IF IsSome(link.password_hash)
                  /\ ~verifyPassword(Val(password), Val(link.password_hash))
            THEN Invalid("Invalid password")
          ELSE [threw |-> FALSE, valid |-> TRUE, reason |-> "", link |-> Some(link)]

\* Mutant: the expiry check is left out.
validateShareLink_noExpiry(tbl, t, token, password, storeFails) ==
  LET got == getShareLink(tbl, token, storeFails)
  IN  IF got.threw
        THEN [threw |-> TRUE, valid |-> FALSE, reason |-> "", link |-> None]
      ELSE IF got.link = None
        THEN Invalid("Link not found")
      ELSE LET link == Val(got.link)
      IN  IF ~link.is_active
            THEN Invalid("Link has been deactivated")
          ELSE IF IsSome(link.max_downloads)
                  /\ link.download_count >= Val(link.max_downloads)
            THEN Invalid("Download limit reached")
          ELSE IF IsSome(link.password_hash) /\ ~TruthyString(password)
            THEN Invalid("Password required")
          ELSE IF IsSome(link.password_hash)
                  /\ ~verifyPassword(Val(password), Val(link.password_hash))
            THEN Invalid("Invalid password")
          ELSE [threw |-> FALSE, valid |-> TRUE, reason |-> "", link |-> Some(link)]

\* validateShareLink(token, password) at time t against table tbl.
validateShareLink(tbl, t, token, password, storeFails) ==
  LET got == getShareLink(tbl, token, storeFails)
  IN  IF got.threw
        THEN [threw |-> TRUE, valid |-> FALSE, reason |-> "", link |-> None]
      ELSE IF got.link = None
        THEN Invalid("Link not found")
      ELSE LET link == Val(got.link)
      IN  IF ~link.is_active
            THEN Invalid("Link has been deactivated")
          ELSE IF IsSome(link.expires_at) /\ Val(link.expires_at) < t
            THEN Invalid("Link has expired")
          ELSE IF IsSome(link.max_downloads)
                  /\ link.download_count >= Val(link.max_downloads)
            THEN Invalid("Download limit reached")
          ELSE IF IsSome(link.password_hash) /\ ~TruthyString(password)
            THEN Invalid("Password required")
          ELSE IF IsSome(link.password_hash)
                  /\ ~verifyPassword(Val(password), Val(link.password_hash))
            THEN Invalid("Invalid password")
          ELSE [threw |-> FALSE, valid |-> TRUE, reason |-> "", link |-> Some(link)]


\* ------------------------------------------------------------------- state
VARIABLES
  shared_links,   \* the shared_links table: a set of rows
  nextId,         \* the next identifier the store assigns
  now,            \* the clock read by Date.now() / new Date()
  creator,        \* createShareLink calls in progress, one per creator
  downloader,     \* POST /:token/download requests in progress
  result,         \* the last response sent or value returned by an operation
  pwOf,           \* history: the password each link was created with
  incsDone,       \* history: successful incrementDownloadCount calls per link
  overlap,        \* history: links on which two increments overlapped
  everExpired,    \* history: links whose expiry has been seen in the past
  storage,        \* the storage client instance: its fields and its transport
  caller,         \* the position of each caller of connect() / disconnect()
  catalogue,      \* the catalogue data files (artists.ts, releases.ts)
  request         \* the route requests in progress, one per caller

vars == <<shared_links, nextId, now, creator, downloader, result,
          pwOf, incsDone, overlap, everExpired, storage, caller, catalogue, request>>

\* The two catalogue collections, each kept in a data file: the list of
\* the entities as written in the file, and the history of the ids the add
\* route has assigned.
Collections == {"artists", "releases"}

NoCatalogue == [c \in Collections |-> [file |-> <<>>, assigned |-> {}]]

\* The three storage clients: O2SwitchStorage over SFTP, O2SwitchStorage over
\* FTPS, and AdminStorageClient.
Clients == {"sftp", "ftps", "admin"}
Callers == {"a", "b"}

\* No route request in progress.
NoRequest == [p \in Callers |-> None]

\* The client after its constructor: connected false, connecting null.
\* handshakes counts the handshake attempts in flight on the transport;
\* startedConnected records a handshake started while connected was true.
\* open tells whether the transport holds an established connection;
\* releases counts, up to ManyReleases, the end()/close() calls issued on the
\* transport since the last connection was established.
ManyReleases == 2
NewStorage(impl) ==
  [impl |-> impl, connected |-> FALSE, connecting |-> FALSE,
   handshakes |-> 0, startedConnected |-> FALSE,
   open |-> FALSE, releases |-> 0]

Creators == {"c1", "c2"}
Downloaders == {"d1", "d2"}
LinkIds == 1..Cardinality(Creators)

Options(u, ttl, pw, max) ==
  [createdBy |-> u, expiresIn |-> ttl, password |-> pw, maxDownloads |-> max]

\* The create requests the creators send.
CreateOptions ==
  { Options("u1", None, None, None),
    Options("u1", Some(-1), None, Some(1)),
    Options("u2", Some(1), None, Some(1)),
    Options("u2", None, Some("pw"), Some(2)),
    Options("u1", Some(1), Some("pw"), None),
    Options("u2", Some(0), Some(""), Some(0)) }

RequestPasswords == {None, Some("pw")}

RequestTokens == {generateShareToken(e) : e \in Entropy}

IdleCreator ==
  [pc |-> "idle", options |-> None, token |-> None,
   expiresAt |-> None, passwordHash |-> None, ret |-> None]

IdleDownloader ==
  [pc |-> "idle", token |-> None, link |-> None, current |-> None, reason |-> ""]

\* Column defaults of the shared_links table for the fields the insert of
\* createShareLink leaves out.
StoreDefaults ==
  [download_count |-> 0, is_active |-> TRUE, last_accessed_at |-> None]

\* The row built by the insert of createShareLink.
InsertRow(id, options, token, expiresAt, passwordHash) ==
  [id |-> id,
   token |-> token,
   created_by |-> options.createdBy,
   expires_at |-> expiresAt,
   password_hash |-> passwordHash,
   max_downloads |-> IF TruthyNumber(options.maxDownloads)
                       THEN options.maxDownloads ELSE None,
   download_count |-> StoreDefaults.download_count,
   is_active |-> StoreDefaults.is_active,
   last_accessed_at |-> StoreDefaults.last_accessed_at]

Init ==
  /\ shared_links = {}
  /\ nextId = 1
  /\ now = 0
  /\ creator = [c \in Creators |-> IdleCreator]
  /\ downloader = [d \in Downloaders |-> IdleDownloader]
  /\ result = None
  /\ pwOf = [i \in LinkIds |-> None]
  /\ incsDone = [i \in LinkIds |-> 0]
  /\ overlap = {}
  /\ everExpired = {}
  /\ storage = NewStorage("sftp")
  /\ caller = [p \in Callers |-> "idle"]
  /\ catalogue = NoCatalogue
  /\ request = NoRequest

\* --------------------------------------------------------- createShareLink
\* Entry: the first token is drawn.
createCall(c, e) ==
  /\ creator[c].pc = "idle"
  /\ \E o \in CreateOptions :
       creator' = [creator EXCEPT ![c] =
                     [IdleCreator EXCEPT !.pc = "lookup", !.options = Some(o),
                                         !.token = Some(generateShareToken(e))]]
  /\ UNCHANGED <<shared_links, nextId, now, downloader, pwOf, incsDone, overlap>>

\* One iteration of the uniqueness loop: the lookup, then either a redraw
\* or the exit of the loop, where the expiry and the password hash are
\* computed.
createLookup(c, e) ==
  /\ creator[c].pc = "lookup"
  /\ \E storeFails \in BOOLEAN, salt \in Salts :
       LET me == creator[c]
           o == Val(me.options)
           existing == single(SelectByToken(shared_links, Val(me.token)), storeFails).data
       IN  creator' = [creator EXCEPT ![c] =
             IF existing = None
               THEN [me EXCEPT
                       !.pc = "insert",
                       !.expiresAt = IF TruthyNumber(o.expiresIn)
                                       THEN Some(now + Val(o.expiresIn)) ELSE None,
                       !.passwordHash = IF TruthyString(o.password)
                                          THEN Some(hashPassword(Val(o.password), salt))
                                          ELSE None]
               ELSE [me EXCEPT !.token = Some(generateShareToken(e))]]
  /\ UNCHANGED <<shared_links, nextId, now, downloader, pwOf, incsDone, overlap>>

\* The insert: the row is stored and returned, or the call throws.
createInsert(c) ==
  /\ creator[c].pc = "insert"
  /\ \E storeFails \in BOOLEAN :
       LET me == creator[c]
           row == InsertRow(nextId, Val(me.options), Val(me.token),
                            me.expiresAt, me.passwordHash)
       IN  IF storeFails
             THEN /\ creator' = [creator EXCEPT ![c] = [IdleCreator EXCEPT !.pc = "failed"]]
                  /\ UNCHANGED <<shared_links, nextId, pwOf>>
             ELSE /\ shared_links' = shared_links \cup {row}
                  /\ nextId' = nextId + 1
                  /\ pwOf' = [pwOf EXCEPT ![nextId] =
                                IF TruthyString(Val(me.options).password)
                                  THEN Val(me.options).password ELSE None]
                  /\ creator' = [creator EXCEPT ![c] =
                                   [IdleCreator EXCEPT !.pc = "done", !.ret = Some(row)]]
  /\ UNCHANGED <<now, downloader, incsDone, overlap>>

\* ------------------------------------------------- POST /:token/download
\* A request that ends: the response is in pc ("rejected": 403 with the
\* reason of validateShareLink, "failed": 500, "send": the file, 200).
Rejected(token, reason) ==
  [pc |-> "rejected", token |-> Some(token), link |-> None,
   current |-> None, reason |-> reason]

Failed(token) ==
  [pc |-> "failed", token |-> Some(token), link |-> None,
   current |-> None, reason |-> "Failed to download file"]

\* validateShareLink, then 403 when the link is not valid.
downloadValidate(d) ==
  /\ downloader[d].pc = "idle"
  /\ \E token \in RequestTokens, password \in RequestPasswords, storeFails \in BOOLEAN :
       LET validation == validateShareLink(shared_links, now, token, password, storeFails)
       IN  downloader' = [downloader EXCEPT ![d] =
             IF validation.threw THEN Failed(token)
             ELSE IF ~validation.valid THEN Rejected(token, validation.reason)
             ELSE [IdleDownloader EXCEPT !.pc = "fetch", !.token = Some(token),
                                         !.link = Some(Val(validation.link).id)]]
  /\ UNCHANGED <<shared_links, nextId, now, creator, result, pwOf, incsDone, overlap>>

\* Mutant: the route sends the file right after the fetch, without the
\* increment.
downloadFetch_sendsFirst(d) ==
  /\ downloader[d].pc = "fetch"
  /\ \E fetchFails \in BOOLEAN :
       downloader' = [downloader EXCEPT ![d] =
         IF fetchFails THEN Failed(Val(downloader[d].token))
                       ELSE [@ EXCEPT !.pc = "send"]]
  /\ UNCHANGED <<shared_links, nextId, now, creator, result, pwOf, incsDone, overlap>>

\* storage.downloadAdminFile(link.file_path): the buffer, or an exception.
downloadFetch(d) ==
  /\ downloader[d].pc = "fetch"
  /\ \E fetchFails \in BOOLEAN :
       downloader' = [downloader EXCEPT ![d] =
         IF fetchFails THEN Failed(Val(downloader[d].token))
                       ELSE [@ EXCEPT !.pc = "incr_read"]]
  /\ UNCHANGED <<shared_links, nextId, now, creator, result, pwOf, incsDone, overlap>>

InFlightIncrement(d, token) ==
  downloader[d].pc = "incr_write" /\ downloader[d].token = Some(token)

\* incrementDownloadCount, first half: read the current count.
incrementRead(d) ==
  /\ downloader[d].pc = "incr_read"
  /\ \E storeFails \in BOOLEAN :
       LET token == Val(downloader[d].token)
           res == single(SelectByToken(shared_links, token), storeFails)
       IN  IF res.error
             THEN /\ downloader' = [downloader EXCEPT ![d] = Failed(token)]
                  /\ UNCHANGED overlap
             ELSE /\ downloader' = [downloader EXCEPT ![d] =
                        [@ EXCEPT !.pc = "incr_write",
                                  !.current = Some(Val(res.data).download_count)]]
                  /\ overlap' = IF \E q \in Downloaders \ {d} : InFlightIncrement(q, token)
                                  THEN overlap \cup {Val(res.data).id} ELSE overlap
  /\ UNCHANGED <<shared_links, nextId, now, creator, result, pwOf, incsDone>>

\* Mutant: the update writes the count it read, without adding one.
IncrementedRows_noAdd(tbl, token, current, t) ==
  {IF r.token = token
     THEN [r EXCEPT !.download_count = current, !.last_accessed_at = Some(t)]
     ELSE r : r \in tbl}

\* Mutant: the update adds one to the count the row holds at the time of the
\* write (an atomic increment), whatever was read before.
IncrementedRows_atomic(tbl, token, current, t) ==
  {IF r.token = token
     THEN [r EXCEPT !.download_count = @ + 1, !.last_accessed_at = Some(t)]
     ELSE r : r \in tbl}

\* The update of incrementDownloadCount: every row holding the token gets
\* the count read before, plus one, and the access time.
IncrementedRows(tbl, token, current, t) ==
  {IF r.token = token
     THEN [r EXCEPT !.download_count = current + 1, !.last_accessed_at = Some(t)]
     ELSE r : r \in tbl}

\* incrementDownloadCount, second half: write count + 1.
incrementWrite(d) ==
  /\ downloader[d].pc = "incr_write"
  /\ Val(downloader[d].current) + 1 <= MaxCount
  /\ \E storeFails \in BOOLEAN :
       LET token == Val(downloader[d].token)
           current == Val(downloader[d].current)
       IN  IF storeFails
             THEN /\ downloader' = [downloader EXCEPT ![d] = Failed(token)]
                  /\ UNCHANGED <<shared_links, incsDone>>
             ELSE /\ shared_links' = IncrementedRows(shared_links, token, current, now)
                  /\ incsDone' = [i \in LinkIds |->
                        IF (\E r \in shared_links : r.id = i /\ r.token = token)
                           /\ incsDone[i] < MaxCount
                          THEN incsDone[i] + 1 ELSE incsDone[i]]
                  /\ downloader' = [downloader EXCEPT ![d] = [@ EXCEPT !.pc = "send"]]
  /\ UNCHANGED <<nextId, now, creator, result, pwOf, overlap>>

\* The response leaves (res.status(..).json(..) or res.send(fileBuffer)) and
\* the handler ends.
downloadRespond(d) ==
  /\ downloader[d].pc \in {"rejected", "failed", "send"}
  /\ downloader' = [downloader EXCEPT ![d] = IdleDownloader]
  /\ UNCHANGED <<shared_links, nextId, now, creator, result, pwOf, incsDone, overlap>>

\* ------------------------------------------- deactivate / delete / sweep
\* Mutant: the update flips the flag instead of clearing it.
DeactivatedRows_toggle(tbl, linkId, userId) ==
  {IF r.id = linkId /\ r.created_by = userId
     THEN [r EXCEPT !.is_active = ~@] ELSE r : r \in tbl}

\* Mutant: the update is filtered on the id alone.
DeactivatedRows_anyUser(tbl, linkId, userId) ==
  {IF r.id = linkId
     THEN [r EXCEPT !.is_active = FALSE] ELSE r : r \in tbl}

\* .update({ is_active: false }).eq('id', linkId).eq('created_by', userId)
DeactivatedRows(tbl, linkId, userId) ==
  {IF r.id = linkId /\ r.created_by = userId
     THEN [r EXCEPT !.is_active = FALSE] ELSE r : r \in tbl}

\* .delete().eq('id', linkId).eq('created_by', userId)
DeletedRows(tbl, linkId, userId) ==
  {r \in tbl : ~(r.id = linkId /\ r.created_by = userId)}

\* Mutant: the filter is `lte` instead of `lt`.
SweptRows_inclusive(tbl, t) == {r \in tbl : IsSome(r.expires_at) /\ Val(r.expires_at) <= t}

\* .delete().lt('expires_at', now): a row without expiry never matches.
SweptRows(tbl, t) == {r \in tbl : IsSome(r.expires_at) /\ Val(r.expires_at) < t}

\* deactivateShareLink(linkId, userId): the update, or an exception.
deactivateShareLink(linkId, userId, storeFails) ==
  /\ shared_links' = IF storeFails THEN shared_links
                     ELSE DeactivatedRows(shared_links, linkId, userId)
  /\ UNCHANGED <<nextId, now, creator, downloader, pwOf, incsDone, overlap>>

\* deleteShareLink(linkId, userId): the delete, or an exception.
deleteShareLink(linkId, userId, storeFails) ==
  /\ shared_links' = IF storeFails THEN shared_links
                     ELSE DeletedRows(shared_links, linkId, userId)
  /\ UNCHANGED <<nextId, now, creator, downloader, pwOf, incsDone, overlap>>

\* cleanupExpiredLinks(): the delete of the expired rows; 0 rows on error.
cleanupExpiredLinks(storeFails) ==
  /\ shared_links' = IF storeFails THEN shared_links
                     ELSE shared_links \ SweptRows(shared_links, now)
  /\ UNCHANGED <<nextId, now, creator, downloader, pwOf, incsDone, overlap>>

\* ------------------------------------------------------------------- clock
Tick ==
  /\ now < MaxClock
  /\ now' = now + 1
  /\ UNCHANGED <<shared_links, nextId, creator, downloader, result, pwOf, incsDone, overlap>>

\* History of expiry: every link whose expiry lies in the past after the step.
ExpiryHistory ==
  everExpired' = everExpired \cup {r.id : r \in {x \in shared_links' : Expired(x, now')}}

\* Link lifecycle: one creator, concurrent downloads, the owner operations,
\* the sweep and the clock.
LifecycleCreators == {"c1"}
LifecycleEntropy == {0}

Next ==
  /\ \/ \E c \in LifecycleCreators, e \in LifecycleEntropy :
          createCall(c, e) /\ UNCHANGED result
     \/ \E c \in LifecycleCreators, e \in LifecycleEntropy :
          createLookup(c, e) /\ UNCHANGED result
     \/ \E c \in LifecycleCreators : createInsert(c) /\ UNCHANGED result
     \/ \E d \in Downloaders : downloadValidate(d)
     \/ \E d \in Downloaders : downloadFetch(d)
     \/ \E d \in Downloaders : incrementRead(d)
     \/ \E d \in Downloaders : incrementWrite(d)
     \/ \E d \in Downloaders : downloadRespond(d)
     \/ \E i \in LinkIds, u \in Users, f \in BOOLEAN :
          deactivateShareLink(i, u, f) /\ UNCHANGED result
     \/ \E i \in LinkIds, u \in Users, f \in BOOLEAN :
          deleteShareLink(i, u, f) /\ UNCHANGED result
     \/ \E f \in BOOLEAN : cleanupExpiredLinks(f) /\ UNCHANGED result
     \/ Tick
  /\ ExpiryHistory
  /\ UNCHANGED <<storage, caller, catalogue, request>>

Spec == Init /\ [][Next]_vars

\* ------------------------------------------------------------ admin routes
\* POST /create, PATCH /:id/deactivate and DELETE /:id of two admins, each
\* response recorded in result.
Created(c) ==
  IF creator[c].pc = "done"
    THEN Some([op |-> "create", status |-> 200, link |-> Val(creator[c].ret)])
    ELSE Some([op |-> "create", status |-> 500])

postCreateCall(c, e) == createCall(c, e) /\ result' = None

postCreateLookup(c, e) == createLookup(c, e) /\ result' = None

postCreateInsert(c) == createInsert(c) /\ result' = Created(c)'

\* validateShareLink(token) with no password, on the token a create has
\* just returned.
validateAfterCreate ==
  /\ result # None
  /\ Val(result).op = "create"
  /\ Val(result).status = 200
  /\ \E storeFails \in BOOLEAN :
       LET link == Val(result).link
       IN  result' = Some([op |-> "validate", status |-> 0, created |-> link,
                           lookup |-> getShareLink(shared_links, link.token, storeFails).link,
                           validation |-> validateShareLink(shared_links, now, link.token,
                                                            None, storeFails)])
  /\ UNCHANGED <<shared_links, nextId, now, creator, downloader, pwOf, incsDone, overlap>>

patchDeactivate(linkId, userId, storeFails) ==
  /\ deactivateShareLink(linkId, userId, storeFails)
  /\ result' = Some([op |-> "deactivate", linkId |-> linkId, userId |-> userId,
                     storeFails |-> storeFails,
                     status |-> IF storeFails THEN 500 ELSE 200])

deleteRoute(linkId, userId, storeFails) ==
  /\ deleteShareLink(linkId, userId, storeFails)
  /\ result' = Some([op |-> "delete", linkId |-> linkId, userId |-> userId,
                     storeFails |-> storeFails,
                     status |-> IF storeFails THEN 500 ELSE 200])

\* Creation: two concurrent POST /create requests, the validation that
\* follows a create, and the clock.
NextCreate ==
  /\ \/ \E c \in Creators, e \in Entropy : postCreateCall(c, e)
     \/ \E c \in Creators, e \in Entropy : postCreateLookup(c, e)
     \/ \E c \in Creators : postCreateInsert(c)
     \/ validateAfterCreate
     \/ Tick
  /\ ExpiryHistory
  /\ UNCHANGED <<storage, caller, catalogue, request>>

SpecCreate == Init /\ [][NextCreate]_vars

\* Ownership: links created by two admins, and PATCH /:id/deactivate and
\* DELETE /:id called by either of them on either link.
NextOwner ==
  /\ \/ \E c \in Creators, e \in Entropy : postCreateCall(c, e)
     \/ \E c \in Creators, e \in Entropy : postCreateLookup(c, e)
     \/ \E c \in Creators : postCreateInsert(c)
     \/ \E i \in LinkIds, u \in Users, f \in BOOLEAN : patchDeactivate(i, u, f)
     \/ \E i \in LinkIds, u \in Users, f \in BOOLEAN : deleteRoute(i, u, f)
  /\ ExpiryHistory
  /\ UNCHANGED <<storage, caller, catalogue, request>>

SpecOwner == Init /\ [][NextOwner]_vars

\* --------------------------------------------------- validation on its own
\* validateShareLink and getShareLink called on a table the store may hold:
\* no row, one row with any combination of field values, or two rows with
\* the same token.
CreatedPasswords == {None, Some("pw"), Some("bad")}

StoredRows(pw) ==
  [id : {1},
   token : {generateShareToken(0)},
   created_by : {"u1"},
   expires_at : {None} \cup {Some(t) : t \in (0 - 1)..(MaxClock + 1)},
   password_hash : {IF IsSome(pw) THEN Some(hashPassword(Val(pw), salt)) ELSE None :
                      salt \in Salts},
   max_downloads : {None, Some(1), Some(2)},
   download_count : 0..MaxCount,
   is_active : BOOLEAN,
   last_accessed_at : {None}]

InitValidate ==
  /\ now \in 0..MaxClock
  /\ \E pw \in CreatedPasswords :
       /\ pwOf = [i \in LinkIds |-> pw]
       /\ \E r \in StoredRows(pw) :
            shared_links \in {{}, {r}, {r, [r EXCEPT !.id = 2]}}
  /\ nextId = 3
  /\ creator = [c \in Creators |-> IdleCreator]
  /\ downloader = [d \in Downloaders |-> IdleDownloader]
  /\ result = None
  /\ incsDone = [i \in LinkIds |-> 0]
  /\ overlap = {}
  /\ everExpired = {r.id : r \in {x \in shared_links : Expired(x, now)}}
  /\ storage = NewStorage("sftp")
  /\ caller = [p \in Callers |-> "idle"]
  /\ catalogue = NoCatalogue
  /\ request = NoRequest

\* A validateShareLink(token, password) call, its arguments and its outcome.
validateCall(token, password, storeFails) ==
  /\ result' = Some([op |-> "validate", token |-> token, password |-> password,
                     storeFails |-> storeFails,
                     validation |-> validateShareLink(shared_links, now, token,
                                                      password, storeFails)])
  /\ UNCHANGED <<shared_links, nextId, now, creator, downloader, pwOf, incsDone, overlap>>

\* A getShareLink(token) call, its argument and its outcome.
getCall(token, storeFails) ==
  /\ result' = Some([op |-> "get", token |-> token, storeFails |-> storeFails,
                     got |-> getShareLink(shared_links, token, storeFails)])
  /\ UNCHANGED <<shared_links, nextId, now, creator, downloader, pwOf, incsDone, overlap>>

NextValidate ==
  /\ \/ \E token \in RequestTokens, password \in SuppliedPasswords, f \in BOOLEAN :
          validateCall(token, password, f)
     \/ \E token \in RequestTokens, f \in BOOLEAN : getCall(token, f)
  /\ ExpiryHistory
  /\ UNCHANGED <<storage, caller, catalogue, request>>

SpecValidate == InitValidate /\ [][NextValidate]_vars

\* -------------------------------------------------------- storage clients
\* The calls of connect() and disconnect() that are over: what they returned.
AtRest == {"idle", "reused", "connected", "failed", "closed", "noop"}

\* The implementations whose connect() keeps the in-flight promise in
\* this.connecting.
KeepsPromise(impl) == impl \in {"sftp", "ftps"}

\* The implementations whose disconnect() awaits the end of the transport.
AwaitsEnd(impl) == impl \in {"sftp", "admin"}

\* connect() up to its first await: return when connected; wait for the
\* attempt in flight when there is one and the client keeps it; otherwise
\* start a handshake.
connectCall(p) ==
  /\ caller[p] \in AtRest
  /\ IF storage.connected
       THEN /\ caller' = [caller EXCEPT ![p] = "reused"]
            /\ UNCHANGED storage
     ELSE IF KeepsPromise(storage.impl) /\ storage.connecting
       THEN /\ caller' = [caller EXCEPT ![p] = "waiting"]
            /\ UNCHANGED storage
     ELSE /\ caller' = [caller EXCEPT ![p] = "handshake"]
          /\ storage' = [storage EXCEPT
                           !.connecting = KeepsPromise(storage.impl),
                           !.handshakes = @ + 1,
                           !.startedConnected = @ \/ storage.connected]

\* A connect() whose failed handshake leaves this.connecting set.
handshakeSettle_keepsMarker(p, ok) ==
  /\ caller[p] = "handshake"
  /\ storage' = [storage EXCEPT !.connected = ok,
                                 !.connecting = IF ok THEN FALSE ELSE @,
                                 !.handshakes = @ - 1,
                                 !.open = @ \/ ok,
                                 !.releases = IF ok THEN 0 ELSE @]
  /\ caller' =
       IF KeepsPromise(storage.impl)
         THEN [q \in Callers |->
                 IF q = p \/ caller[q] = "waiting"
                   THEN (IF ok THEN "wake_ok" ELSE "wake_err")
                   ELSE caller[q]]
         ELSE [caller EXCEPT ![p] = IF ok THEN "connected" ELSE "failed"]

\* The handshake of caller p ends. With the promise kept: connected is set,
\* connecting is cleared, and the starter and the waiters are resumed later.
\* Without: connected is set and connect() returns or throws.
handshakeSettle(p, ok) ==
  /\ caller[p] = "handshake"
  /\ storage' = [storage EXCEPT !.connected = ok, !.connecting = FALSE,
                                 !.handshakes = @ - 1,
                                 !.open = @ \/ ok,
                                 !.releases = IF ok THEN 0 ELSE @]
  /\ caller' =
       IF KeepsPromise(storage.impl)
         THEN [q \in Callers |->
                 IF q = p \/ caller[q] = "waiting"
                   THEN (IF ok THEN "wake_ok" ELSE "wake_err")
                   ELSE caller[q]]
         ELSE [caller EXCEPT ![p] = IF ok THEN "connected" ELSE "failed"]

\* The continuation of `await this.connecting`: connect() returns or throws.
connectResume(p) ==
  /\ caller[p] \in {"wake_ok", "wake_err"}
  /\ caller' = [caller EXCEPT ![p] = IF caller[p] = "wake_ok" THEN "connected" ELSE "failed"]
  /\ UNCHANGED storage

\* One more end()/close() call on the transport.
Released(n) == IF n < ManyReleases THEN n + 1 ELSE n

\* disconnect() up to its await: nothing when not connected; otherwise the
\* transport is closed, at once (FTPS) or after an await.
disconnectCall(p) ==
  /\ caller[p] \in AtRest
  /\ IF ~storage.connected
       THEN /\ caller' = [caller EXCEPT ![p] = "noop"]
            /\ UNCHANGED storage
     ELSE IF AwaitsEnd(storage.impl)
       THEN /\ caller' = [caller EXCEPT ![p] = "closing"]
            /\ storage' = [storage EXCEPT !.releases = Released(@)]
     ELSE /\ caller' = [caller EXCEPT ![p] = "closed"]
          /\ storage' = [storage EXCEPT !.connected = FALSE,
                                          !.open = FALSE,
                                          !.releases = Released(@)]

\* The continuation of `await this.client.end()`.
disconnectDone(p, ok) ==
  /\ caller[p] = "closing"
  /\ caller' = [caller EXCEPT ![p] = IF ok THEN "closed" ELSE "failed"]
  /\ storage' = [storage EXCEPT !.connected = IF ok THEN FALSE ELSE @,
                                  !.open = IF ok THEN FALSE ELSE @]

\* The remote end or the network drops the established connection. No
\* client registers a listener on its transport, so no field of the client
\* changes.
connectionLost ==
  /\ storage.open
  /\ storage' = [storage EXCEPT !.open = FALSE]
  /\ UNCHANGED caller

InitConn ==
  /\ shared_links = {}
  /\ nextId = 1
  /\ now = 0
  /\ creator = [c \in Creators |-> IdleCreator]
  /\ downloader = [d \in Downloaders |-> IdleDownloader]
  /\ result = None
  /\ pwOf = [i \in LinkIds |-> None]
  /\ incsDone = [i \in LinkIds |-> 0]
  /\ overlap = {}
  /\ everExpired = {}
  /\ storage \in {NewStorage(impl) : impl \in Clients}
  /\ caller = [p \in Callers |-> "idle"]
  /\ catalogue = NoCatalogue
  /\ request = NoRequest

NextConn ==
  /\ \/ \E p \in Callers : connectCall(p)
     \/ \E p \in Callers, ok \in BOOLEAN : handshakeSettle(p, ok)
     \/ \E p \in Callers : connectResume(p)
     \/ \E p \in Callers : disconnectCall(p)
     \/ \E p \in Callers, ok \in BOOLEAN : disconnectDone(p, ok)
     \/ connectionLost
  /\ UNCHANGED <<shared_links, nextId, now, creator, downloader, result,
                 pwOf, incsDone, overlap, everExpired, catalogue, request>>

SpecConn == InitConn /\ [][NextConn]_vars


\* ------------------------------------------------------------------ claims
LastValidate == result # None /\ Val(result).op = "validate"
LastGet == result # None /\ Val(result).op = "get"

\* The row a lookup of token returns: the only row holding it, when the
\* store answers.
Found(token, storeFails) ==
  IF ~storeFails /\ Cardinality(SelectByToken(shared_links, token)) = 1
    THEN Some(CHOOSE r \in shared_links : r.token = token) ELSE None

OverLimit(r) == IsSome(r.max_downloads) /\ r.download_count >= Val(r.max_downloads)

\* The password check of a link fails when the link has a password and the
\* caller supplies none, or one that is not the password set at creation.
WrongPassword(r, password) ==
  IsSome(r.password_hash) /\ (~TruthyString(password) \/ password # pwOf[r.id])

\* The checks after existence, in the order of the contract, each with the
\* reason it reports.
ChecksInOrder(r, password) ==
  << [fails |-> ~r.is_active, reason |-> "Link has been deactivated"],
     [fails |-> Expired(r, now), reason |-> "Link has expired"],
     [fails |-> OverLimit(r), reason |-> "Download limit reached"],
     [fails |-> WrongPassword(r, password),
      reason |-> IF TruthyString(password) THEN "Invalid password"
                                           ELSE "Password required"] >>

Failing(r, password) == {i \in 1..4 : ChecksInOrder(r, password)[i].fails}

Earliest(S) == CHOOSE i \in S : \A j \in S : i <= j

\* C1: validateLink reports the reason of the earliest failing check in the
\* order existence, active flag, expiry, download limit, password, whatever
\* later checks fail as well, and is valid exactly when no check fails.
C1_FirstFailingCheck ==
  LastValidate =>
    LET o == Val(result)
        got == Found(o.token, o.storeFails)
    IN  /\ ~o.validation.threw
        /\ IF got = None
             THEN o.validation = Invalid("Link not found")
             ELSE LET r == Val(got)
                      failing == Failing(r, o.password)
                  IN  IF failing = {}
                        THEN o.validation.valid /\ o.validation.link = Some(r)
                        ELSE o.validation =
                               Invalid(ChecksInOrder(r, o.password)[Earliest(failing)].reason)

\* C1 witness: a link that is deactivated, expired, over its limit and
\* password-protected at once has been validated and reported as deactivated.
C1_Witness ==
  /\ LastValidate
  /\ Found(Val(result).token, Val(result).storeFails) # None
  /\ Failing(Val(Found(Val(result).token, Val(result).storeFails)),
             Val(result).password) = {1, 2, 3, 4}
  /\ Val(result).validation.reason = "Link has been deactivated"

\* C6: validateLink on a token no stored link holds returns valid:false with
\* reason 'Link not found' and does not throw; getLink on it returns absent
\* and does not throw.
C6_UnknownToken ==
  /\ LastValidate /\ SelectByToken(shared_links, Val(result).token) = {}
       => Val(result).validation = Invalid("Link not found")
  /\ LastGet /\ SelectByToken(shared_links, Val(result).token) = {}
       => Val(result).got = [threw |-> FALSE, link |-> None]

\* C6 witness: a validation of a token held by no link of a non-empty table
\* has answered, the store itself being reachable.
C6_Witness ==
  /\ LastValidate
  /\ shared_links # {}
  /\ SelectByToken(shared_links, Val(result).token) = {}
  /\ ~Val(result).storeFails
  /\ Val(result).validation.reason = "Link not found"

\* C10: for a link with a password that passes the earlier checks (found,
\* active, unexpired, under its limit), validateLink answers 'Password
\* required' without a password, 'Invalid password' with a password other
\* than the one set at creation, and valid:true with the one set at creation.
C10_PasswordGate ==
  LastValidate =>
    LET o == Val(result)
        got == Found(o.token, o.storeFails)
    IN  got # None =>
          LET r == Val(got)
          IN  r.is_active /\ ~Expired(r, now) /\ ~OverLimit(r) /\ IsSome(r.password_hash) =>
                /\ ~TruthyString(o.password) => o.validation = Invalid("Password required")
                /\ TruthyString(o.password) /\ o.password # pwOf[r.id]
                     => o.validation = Invalid("Invalid password")
                /\ o.password = pwOf[r.id]
                     => o.validation.valid /\ o.validation.link = Some(r)

\* C10 witness: a password-protected link has been validated with the
\* password set at creation and found valid.
C10_Witness ==
  /\ LastValidate
  /\ Val(result).validation.valid
  /\ IsSome(Val(Val(result).validation.link).password_hash)
  /\ Val(result).password = pwOf[Val(Val(result).validation.link).id]

\* ---------------------------------------------------------- link lifecycle
\* The link row is the only row holding its token and the lookup succeeds.
Returned(r) == getShareLink(shared_links, r.token, FALSE).link = Some(r)

\* C3: for every stored link with a maximum download count, download_count
\* never exceeds max_downloads, under every interleaving of download
\* requests (validateShareLink, the file fetch, incrementDownloadCount).
C3_CountWithinMax ==
  \A r \in shared_links :
    IsSome(r.max_downloads) => r.download_count <= Val(r.max_downloads)

\* C8: an active link whose expires_at is strictly before the clock fails
\* validateShareLink with 'Link has expired' whatever password is supplied,
\* and once the expiry of a link has been in the past, no validateShareLink
\* call on its token returns valid, whatever happened in between.
C8_ExpiryPermanent ==
  \A r \in shared_links, p \in SuppliedPasswords :
    /\ (r.is_active /\ IsSome(r.expires_at) /\ Val(r.expires_at) < now /\ Returned(r))
         => validateShareLink(shared_links, now, r.token, p, FALSE)
              = Invalid("Link has expired")
    /\ r.id \in everExpired
         => \A f \in BOOLEAN :
              ~validateShareLink(shared_links, now, r.token, p, f).valid

\* A download was refused with 'Link has expired' on a link, still active,
\* that is known to have expired at an earlier time.
C8_Witness ==
  \E d \in Downloaders, r \in shared_links :
    /\ downloader[d].pc = "rejected"
    /\ downloader[d].reason = "Link has expired"
    /\ downloader[d].token = Some(r.token)
    /\ r.is_active
    /\ r.id \in everExpired
    /\ Val(r.expires_at) < now

\* C9: a link created with maxDownloads = m, active and unexpired, on which
\* m incrementDownloadCount calls have succeeded one after another (none
\* overlapping another), fails every validateShareLink call with
\* 'Download limit reached', whatever password is supplied.
C9_LimitReached ==
  \A r \in shared_links, p \in SuppliedPasswords :
    ( /\ IsSome(r.max_downloads)
      /\ r.id \notin overlap
      /\ incsDone[r.id] >= Val(r.max_downloads)
      /\ r.is_active
      /\ ~(IsSome(r.expires_at) /\ Val(r.expires_at) < now)
      /\ Returned(r) )
    => validateShareLink(shared_links, now, r.token, p, FALSE)
         = Invalid("Download limit reached")

\* Two downloads of a link with maxDownloads = 2 have completed in sequence
\* and a third request has been refused with 'Download limit reached'.
C9_Witness ==
  \E d \in Downloaders, r \in shared_links :
    /\ r.max_downloads = Some(2)
    /\ incsDone[r.id] = 2
    /\ r.id \notin overlap
    /\ r.is_active
    /\ downloader[d].pc = "rejected"
    /\ downloader[d].reason = "Download limit reached"
    /\ downloader[d].token = Some(r.token)

\* ---------------------------------------------------------------- creation
\* C4: no two stored links hold the same token, also when two
\* createShareLink calls interleave their lookup and their insert and when
\* the lookup fails.
C4_TokensUnique ==
  \A r1 \in shared_links, r2 \in shared_links :
    r1.token = r2.token => r1.id = r2.id

HexChars == {"0", "1", "2", "3", "4", "5", "6", "7",
             "8", "9", "a", "b", "c", "d", "e", "f"}

FixedFormat(token) ==
  Len(token) = TokenLength /\ \A i \in 1..Len(token) : token[i] \in HexChars

ValidatedAfterCreate == result # None /\ Val(result).op = "validate"

OwnerCall(o) == o # None /\ Val(o).op \in {"deactivate", "delete"}

IsCreator(linkId, userId) ==
  \E r \in shared_links : r.id = linkId /\ r.created_by = userId

\* C5: deactivateShareLink and deleteShareLink called by a user who is not
\* the creator of the link leave every row as it is and raise no error (an
\* error comes from a failure of the store only); a row is deactivated or
\* removed only when it has the requested id and the requesting user is its
\* creator, and then nothing but its is_active flag changes, or it is gone.
C5_OnlyCreator ==
  [][ OwnerCall(result') =>
        LET o == Val(result')
        IN  /\ (o.status # 200) <=> o.storeFails
            /\ ~IsCreator(o.linkId, o.userId) => shared_links' = shared_links
            /\ \A r \in shared_links \ shared_links' :
                  /\ r.id = o.linkId /\ r.created_by = o.userId /\ ~o.storeFails
                  /\ shared_links' \ shared_links =
                        IF o.op = "delete" THEN {}
                        ELSE {[r EXCEPT !.is_active = FALSE]}
            /\ (shared_links' \ shared_links # {})
                  => (shared_links \ shared_links' # {})
    ]_vars

\* A deactivate or delete by a user who is not the creator has returned
\* without error, and the link is still stored and active.
C5_Witness ==
  /\ OwnerCall(result)
  /\ Val(result).status = 200
  /\ \E r \in shared_links :
       /\ r.id = Val(result).linkId
       /\ r.created_by # Val(result).userId
       /\ r.is_active

\* -------------------------------------------------------------- connection
\* C2: on every storage client, across every interleaving of connect()
\* calls, at most one handshake attempt is in flight at a time and none is
\* started while the client is connected.
C2_SingleHandshake ==
  storage.handshakes <= 1 /\ ~storage.startedConnected

\* ------------------------------------------------------------ deactivation
\* C11: once is_active of a link is false, no operation (create, download,
\* deactivate, delete, sweep) sets it back to true, and no validateShareLink
\* call on the token of a deactivated link is valid, whatever password is
\* supplied.
C11_DeactivationPermanent ==
  [][ /\ \A r \in shared_links, r2 \in shared_links' :
           (r.id = r2.id /\ ~r.is_active) => ~r2.is_active
      /\ \A r2 \in shared_links', p \in SuppliedPasswords, f \in BOOLEAN :
           ~r2.is_active
             => ~validateShareLink(shared_links', now', r2.token, p, f).valid
    ]_vars

\* A download was refused with 'Link has been deactivated' on a stored,
\* deactivated link that has neither expired nor reached its limit.
C11_Witness ==
  \E d \in Downloaders, r \in shared_links :
    /\ ~r.is_active
    /\ ~Expired(r, now)
    /\ ~OverLimit(r)
    /\ downloader[d].pc = "rejected"
    /\ downloader[d].reason = "Link has been deactivated"
    /\ downloader[d].token = Some(r.token)

\* ---------------------------------------------------------- download count
\* C12: the stored download_count of a link never decreases, across every
\* interleaving of operations, concurrent incrementDownloadCount calls on
\* one token included.
C12_CountMonotone ==
  [][ \A r \in shared_links, r2 \in shared_links' :
        r.id = r2.id => r2.download_count >= r.download_count
    ]_vars

\* C13: incrementDownloadCount drops no increment: every call that returns
\* without error on a stored link leaves the stored download_count one
\* higher than it was before the call returned, so that n such calls make
\* the count grow by n.
C13_NoDroppedIncrement ==
  [][ \A r \in shared_links, r2 \in shared_links' :
        (r.id = r2.id /\ incsDone'[r.id] = incsDone[r.id] + 1)
          => r2.download_count = r.download_count + 1
    ]_vars

\* ---------------------------------------------------------- sweep on its own
\* Mutant: the error of the delete is thrown instead of reported as 0.
cleanupOutcome_throws(tbl, t, storeFails) ==
  IF storeFails THEN [threw |-> TRUE, removed |-> 0]
                ELSE [threw |-> FALSE, removed |-> Cardinality(SweptRows(tbl, t))]

\* What cleanupExpiredLinks gives back: 0 on error, else the number of rows
\* the delete returned. threw marks an exception leaving the function.
cleanupOutcome(tbl, t, storeFails) ==
  IF storeFails THEN [threw |-> FALSE, removed |-> 0]
                ELSE [threw |-> FALSE, removed |-> Cardinality(SweptRows(tbl, t))]

\* Stored links of every expiry, active or deactivated.
SweepExpiries == {None} \cup {Some(t) : t \in (0 - 1)..(MaxClock + 1)}

SweepRow(id, expiresAt, active) ==
  [InsertRow(id, Options("u1", None, None, None), generateShareToken(id - 1),
             expiresAt, None) EXCEPT !.is_active = active]

SweepRows(id) ==
  {SweepRow(id, x, a) : x \in SweepExpiries, a \in BOOLEAN}

InitSweep ==
  /\ \E S \in SUBSET LinkIds :
       \E pick \in [S -> SweepExpiries \X BOOLEAN] :
         shared_links = {SweepRow(i, pick[i][1], pick[i][2]) : i \in S}
  /\ nextId = Cardinality(LinkIds) + 1
  /\ now = 0
  /\ creator = [c \in Creators |-> IdleCreator]
  /\ downloader = [d \in Downloaders |-> IdleDownloader]
  /\ result = None
  /\ pwOf = [i \in LinkIds |-> None]
  /\ incsDone = [i \in LinkIds |-> 0]
  /\ overlap = {}
  /\ everExpired = {r.id : r \in {x \in shared_links : Expired(x, now)}}
  /\ storage = NewStorage("sftp")
  /\ caller = [p \in Callers |-> "idle"]
  /\ catalogue = NoCatalogue
  /\ request = NoRequest

\* A cleanupExpiredLinks() call: the table before it, the time, its outcome.
sweepCall(storeFails) ==
  /\ cleanupExpiredLinks(storeFails)
  /\ result' = Some([op |-> "sweep", storeFails |-> storeFails,
                     before |-> shared_links, at |-> now,
                     outcome |-> cleanupOutcome(shared_links, now, storeFails)])

NextSweep ==
  /\ \/ \E f \in BOOLEAN : sweepCall(f)
     \/ Tick
  /\ ExpiryHistory
  /\ UNCHANGED <<storage, caller, catalogue, request>>

SpecSweep == InitSweep /\ [][NextSweep]_vars

LastSweep == result # None /\ Val(result).op = "sweep"

\* C14: a sweep whose store request succeeds removes exactly the links whose
\* expires_at is strictly before the time of the call, active or not, and
\* returns their number; links with no expiry or an expiry not yet passed
\* stay stored, unchanged.
C14_SweepExact ==
  (LastSweep /\ ~Val(result).storeFails) =>
    LET o == Val(result)
        gone == {r \in o.before : r.expires_at # None /\ Val(r.expires_at) < o.at}
    IN  /\ shared_links = o.before \ gone
        /\ o.outcome.removed = Cardinality(gone)
        /\ \A r \in o.before :
             (r.expires_at = None \/ Val(r.expires_at) >= o.at) => r \in shared_links

\* A sweep removed a deactivated expired link and kept a link expiring at
\* the very time of the call.
C14_Witness ==
  /\ LastSweep
  /\ ~Val(result).storeFails
  /\ Val(result).outcome.removed = 1
  /\ \E r \in Val(result).before : ~r.is_active /\ r \notin shared_links
  /\ \E r \in shared_links : r.expires_at = Some(Val(result).at)

\* C15: cleanupExpiredLinks never throws; when the store request fails it
\* returns 0 and no row is removed.
C15_SweepNeverThrows ==
  LastSweep =>
    LET o == Val(result)
    IN  /\ ~o.outcome.threw
        /\ o.storeFails => (o.outcome.removed = 0 /\ shared_links = o.before)

\* A sweep failed while an expired link was stored: 0 returned, link kept.
C15_Witness ==
  /\ LastSweep
  /\ Val(result).storeFails
  /\ Val(result).outcome = [threw |-> FALSE, removed |-> 0]
  /\ \E r \in shared_links : IsSome(r.expires_at) /\ Val(r.expires_at) < Val(result).at

\* ------------------------------------------------------------ remote paths
\* A path is its list of segments and whether it starts with '/'.
MaxSegments == 3

Path(abs, segs) == [abs |-> abs, segs |-> segs]

\* ADMIN_STORAGE_PATH, by default '/home/faji2535/admin-files'.
basePath == Path(TRUE, <<"home", "faji2535", "admin-files">>)

SegmentNames == {"..", ".", "docs", "a.wav"}

RECURSIVE SegLists(_)
SegLists(n) ==
  IF n = 0 THEN {<<>>}
  ELSE SegLists(n - 1) \cup
       {Append(s, x) : s \in {t \in SegLists(n - 1) : Len(t) = n - 1}, x \in SegmentNames}

\* The paths a request can carry: relative or absolute-looking, with '.' and
\* '..' segments anywhere.
RequestPaths == {Path(abs, segs) : abs \in BOOLEAN, segs \in SegLists(MaxSegments)}

\* path.normalize (posix) on the segments: '.' is dropped, '..' removes the
\* segment before it, is dropped at the root of an absolute path, and is
\* kept at the front of a relative one.
RECURSIVE normalizeSegs(_, _, _)
normalizeSegs(done, rest, abs) ==
  IF rest = <<>> THEN done
  ELSE LET x == Head(rest)
       IN  IF x = "." THEN normalizeSegs(done, Tail(rest), abs)
           ELSE IF x = ".."
             THEN IF done # <<>> /\ done[Len(done)] # ".."
                    THEN normalizeSegs(SubSeq(done, 1, Len(done) - 1), Tail(rest), abs)
                  ELSE IF abs THEN normalizeSegs(done, Tail(rest), abs)
                  ELSE normalizeSegs(Append(done, x), Tail(rest), abs)
           ELSE normalizeSegs(Append(done, x), Tail(rest), abs)

normalize(p) == Path(p.abs, normalizeSegs(<<>>, p.segs, p.abs))

\* path.join(a, b): the two joined with '/', then normalized; a leading '/'
\* of b is a separator only.
join(a, b) == normalize(Path(a.abs, a.segs \o b.segs))

\* AdminStorageClient.getFullPath
getFullPath(relativePath) ==
  LET normalized == normalize(relativePath)
  IN  IF normalized.abs
        THEN join(basePath, Path(FALSE, normalized.segs))
        ELSE join(basePath, normalized)

\* O2SwitchStorage (SFTP and FTPS): path.join(adminBasePath, relativePath)
adminFullPath(relativePath) == join(basePath, relativePath)

\* The remote path a storage operation of client impl is issued on.
RemotePath(impl, relativePath) ==
  IF impl = "admin" THEN getFullPath(relativePath) ELSE adminFullPath(relativePath)

\* A storage operation (list, get, put, stat, delete, mkdir) on a path.
resolveCall(impl, relativePath) ==
  /\ result' = Some([op |-> "resolve", impl |-> impl, path |-> relativePath,
                     remote |-> RemotePath(impl, relativePath)])
  /\ UNCHANGED <<shared_links, nextId, now, creator, downloader,
                 pwOf, incsDone, overlap, everExpired, storage, caller, catalogue, request>>

NextPath == \E impl \in Clients, p \in RequestPaths : resolveCall(impl, p)

SpecPath == Init /\ [][NextPath]_vars

Inside(base, p) ==
  /\ p.abs
  /\ Len(p.segs) >= Len(base.segs)
  /\ SubSeq(p.segs, 1, Len(base.segs)) = base.segs

\* C16: for every path passed to a remote storage operation, '..' segments
\* and absolute-looking paths included, the resolved remote path lies inside
\* the base path.
C16_InsideBase ==
  (result # None /\ Val(result).op = "resolve") => Inside(basePath, Val(result).remote)

\* ------------------------------------------------------------------ search
\* File names are sequences of characters; a remote path is the sequence of
\* names below the base path.
LowerOf(c) ==
  CASE c = "M" -> "m" [] c = "I" -> "i" [] c = "X" -> "x" [] OTHER -> c

\* String.prototype.toLowerCase
toLowerCase(s) == [i \in 1..Len(s) |-> LowerOf(s[i])]

\* String.prototype.includes
includes(s, sub) ==
  \E i \in 0..(Len(s) - Len(sub)) : SubSeq(s, i + 1, i + Len(sub)) = sub

Entry(path, type) == [path |-> path, type |-> type]

NameOf(e) == e.path[Len(e.path)]

\* The remote trees: a file at depth 0, and a chain of directories with a
\* file at depth 1 and a file at depth 3.
RemoteEntries ==
  { Entry(<< <<"M", "i", "x">> >>, "-"),
    Entry(<< <<"s", "u", "b">> >>, "d"),
    Entry(<< <<"s", "u", "b">>, <<"o", "x">> >>, "-"),
    Entry(<< <<"s", "u", "b">>, <<"i", "n">> >>, "d"),
    Entry(<< <<"s", "u", "b">>, <<"i", "n">>, <<"d", "e", "e", "p">> >>, "d"),
    Entry(<< <<"s", "u", "b">>, <<"i", "n">>, <<"d", "e", "e", "p">>,
             <<"r", "e", "m", "I", "X">> >>, "-") }

IsDirectory(tree, path) ==
  path = <<>> \/ \E e \in tree : e.path = path /\ e.type = "d"

RemoteTrees ==
  {t \in SUBSET RemoteEntries :
     \A e \in t : IsDirectory(t, SubSeq(e.path, 1, Len(e.path) - 1))}

Queries == {<<>>, <<"m", "i", "x">>, <<"M", "I", "X">>, <<"i", "n">>, <<"z">>}

\* this.client.list(dirPath): the entries directly inside the directory.
list(tree, dirPath) ==
  {e \in tree : Len(e.path) = Len(dirPath) + 1
                /\ SubSeq(e.path, 1, Len(dirPath)) = dirPath}

\* searchDirectory of searchAdminFiles: the matching entries of the
\* directory with their path below the base, then those of each
\* sub-directory.
RECURSIVE searchDirectory(_, _, _)
searchDirectory(tree, dirPath, lowerQuery) ==
  {[name |-> NameOf(e), path |-> Some(e.path)] :
     e \in {x \in list(tree, dirPath) : includes(toLowerCase(NameOf(x)), lowerQuery)}}
  \cup UNION {searchDirectory(tree, e.path, lowerQuery) :
                e \in {x \in list(tree, dirPath) : x.type = "d"}}

\* O2SwitchStorage.searchAdminFiles (SFTP and FTPS).
searchAdminFiles(tree, relativePath, query) ==
  searchDirectory(tree, relativePath, toLowerCase(query))

\* AdminStorageClient.search: listFiles(relativePath) filtered on the name;
\* an AdminFile carries no path.
search(tree, relativePath, query) ==
  {[name |-> NameOf(e), path |-> None] :
     e \in {x \in list(tree, relativePath) :
              includes(toLowerCase(NameOf(x)), toLowerCase(query))}}

\* A search request on a tree: its arguments and the entries returned.
searchCall(impl, tree, relativePath, query) ==
  /\ IsDirectory(tree, relativePath)
  /\ result' = Some([op |-> "search", impl |-> impl, tree |-> tree,
                     path |-> relativePath, query |-> query,
                     found |-> IF impl = "admin"
                                 THEN search(tree, relativePath, query)
                                 ELSE searchAdminFiles(tree, relativePath, query)])
  /\ UNCHANGED <<shared_links, nextId, now, creator, downloader,
                 pwOf, incsDone, overlap, everExpired, storage, caller, catalogue, request>>

NextSearch ==
  \E impl \in Clients, tree \in RemoteTrees, e \in RemoteEntries \cup {Entry(<<>>, "d")},
     query \in Queries :
    searchCall(impl, tree, e.path, query)

SpecSearch == Init /\ [][NextSearch]_vars

IsPrefix(a, b) == Len(a) <= Len(b) /\ SubSeq(b, 1, Len(a)) = a

\* C17: in every storage client, search(path, query) returns every entry
\* of the subtree below path, at every depth, whose name contains the query
\* without regard to case, and no other, each with its path below the base.
C17_SearchWholeSubtree ==
  (result # None /\ Val(result).op = "search") =>
    LET o == Val(result)
    IN  o.found =
          {[name |-> NameOf(e), path |-> Some(e.path)] :
             e \in {x \in o.tree :
                      /\ IsPrefix(o.path, x.path) /\ x.path # o.path
                      /\ includes(toLowerCase(NameOf(x)), toLowerCase(o.query))}}

\* ------------------------------------------------------------------ upload
Categories == {"admin", "label-submissions", "studio-requests"}

FileNames == {"a.wav", "b.aiff"}

\* O2SWITCH_BASE_PATH, the root of the public categories.
publicBasePath == Path(TRUE, <<"home", "faji2535", "public_html", "uploads">>)

\* remotePath of O2SwitchStorage.uploadFile; AdminStorageClient.uploadFile
\* is given the path below its base.
uploadRemotePath(impl, type, filename) ==
  IF impl = "admin" THEN getFullPath(Path(FALSE, <<type, filename>>))
  ELSE IF type = "admin" THEN join(basePath, Path(FALSE, <<filename>>))
  ELSE join(publicBasePath, Path(FALSE, <<type, filename>>))

\* The first remote step of uploadFile in each client.
FirstUploadStep(impl) ==
  CASE impl = "sftp" -> "put"
    [] impl = "ftps" -> "ensureDir"
    [] impl = "admin" -> "mkdir"

UploadOver == IF result = None THEN TRUE ELSE Val(result).pc \in {"done", "failed"}

\* uploadFile is called: the remote path is computed. parentExists tells
\* whether the parent directory of the target is there on the remote host;
\* issued is the list of remote steps that have been issued so far.
uploadCall(impl, type, filename, parentExists) ==
  /\ UploadOver
  /\ result' = Some([op |-> "upload", impl |-> impl, type |-> type,
                     remote |-> uploadRemotePath(impl, type, filename),
                     parentExists |-> parentExists,
                     pc |-> FirstUploadStep(impl), issued |-> <<>>])

\* await this.client.ensureDir(dir) (FTPS) / await this.client.mkdir(dirPath,
\* true) (AdminStorageClient): the directories are created, or the call throws.
uploadMkdir(ok) ==
  /\ result # None
  /\ Val(result).pc \in {"ensureDir", "mkdir"}
  /\ result' = Some([Val(result) EXCEPT
                       !.issued = Append(@, "mkdir"),
                       !.parentExists = @ \/ ok,
                       !.pc = IF ok THEN "put" ELSE "failed"])

\* await this.client.put(buffer, remotePath) / uploadFrom(readable,
\* remotePath): the write, which fails when the parent directory is missing.
uploadPut(ok) ==
  /\ result # None
  /\ Val(result).pc = "put"
  /\ result' = Some([Val(result) EXCEPT
                       !.issued = Append(@, "put"),
                       !.pc = IF ~(ok /\ Val(result).parentExists) THEN "failed"
                              ELSE IF Val(result).impl = "admin" THEN "stat"
                              ELSE "done"])

\* await this.client.stat(fullPath) of AdminStorageClient.uploadFile.
uploadStat(ok) ==
  /\ result # None
  /\ Val(result).pc = "stat"
  /\ result' = Some([Val(result) EXCEPT
                       !.issued = Append(@, "stat"),
                       !.pc = IF ok THEN "done" ELSE "failed"])

NextUpload ==
  /\ \/ \E impl \in Clients, type \in Categories, filename \in FileNames, x \in BOOLEAN :
          uploadCall(impl, type, filename, x)
     \/ \E ok \in BOOLEAN : uploadMkdir(ok)
     \/ \E ok \in BOOLEAN : uploadPut(ok)
     \/ \E ok \in BOOLEAN : uploadStat(ok)
  /\ UNCHANGED <<shared_links, nextId, now, creator, downloader,
                 pwOf, incsDone, overlap, everExpired, storage, caller, catalogue, request>>

SpecUpload == Init /\ [][NextUpload]_vars

\* C18: in every storage client and for every category, uploadFile issues
\* the creation of the parent directories, and it completes, before the
\* write is issued.
C18_DirectoriesBeforeWrite ==
  (result # None /\ Val(result).op = "upload") =>
    LET issued == Val(result).issued
    IN  \A i \in 1..Len(issued) :
          issued[i] = "put" => (i > 1 /\ issued[1] = "mkdir" /\ Val(result).parentExists)

\* --------------------------------------------------------- catalogue files
\* Free text is a sequence of characters. The characters that matter to the
\* generated code: a plain letter, the double quote, the newline, the
\* backslash.
MaxText == 2

DQ == "\""
NL == "\n"
BS == "\\"

TextChars == {"a", DQ, NL, BS}

RECURSIVE Texts(_)
Texts(n) ==
  IF n = 0 THEN {<<>>}
  ELSE Texts(n - 1) \cup
       {Append(s, c) : s \in {t \in Texts(n - 1) : Len(t) = n - 1}, c \in TextChars}

\* String.prototype.replace(/x/g, by): every occurrence of the character x
\* replaced by the characters of by.
RECURSIVE replaceAll(_, _, _)
replaceAll(s, x, by) ==
  IF s = <<>> THEN <<>>
  ELSE (IF Head(s) = x THEN by ELSE <<Head(s)>>) \o replaceAll(Tail(s), x, by)

\* `"${text}"` of the templates: the text between two double quotes.
quoted(text) == <<DQ>> \o text \o <<DQ>>

\* What eval reads from a double-quoted string literal starting at position
\* i of the source, with acc read so far: the value when the literal is
\* closed by the last character of the source, and a syntax error (None)
\* when it is closed earlier, not closed, or broken by a raw newline.
RECURSIVE readLiteral(_, _, _)
readLiteral(src, i, acc) ==
  IF i > Len(src) THEN None
  ELSE IF src[i] = DQ THEN (IF i = Len(src) THEN Some(acc) ELSE None)
  ELSE IF src[i] = NL THEN None
  ELSE IF src[i] = BS
    THEN IF i + 1 > Len(src) THEN None
         ELSE LET d == src[i + 1]
              IN  readLiteral(src, i + 2,
                    IF d = "n" THEN Append(acc, NL)
                    ELSE IF d = NL THEN acc
                    ELSE Append(acc, d))
  ELSE readLiteral(src, i + 1, Append(acc, src[i]))

\* eval of one string literal of the file.
evalLiteral(src) ==
  IF Len(src) < 2 \/ src[1] # DQ THEN None ELSE readLiteral(src, 2, <<>>)

\* artistToTS: the code of an artist; the description has its double quotes
\* and newlines escaped, the name is written as it is.
artistToTS(artist) ==
  [id |-> artist.id,
   name |-> quoted(artist.name),
   description |-> quoted(replaceAll(replaceAll(artist.description, DQ, <<BS, DQ>>),
                                     NL, <<BS, "n">>))]

\* releaseToTS: the code of a release; the description is written only when
\* it is not empty, with its double quotes escaped; the title is written as
\* it is.
releaseToTS(release) ==
  [id |-> release.id,
   title |-> quoted(release.title),
   description |-> IF TruthyString(release.description)
                     THEN Some(quoted(replaceAll(Val(release.description), DQ, <<BS, DQ>>)))
                     ELSE None]

\* map over a list.
MapSeq(Op(_), s) == [i \in 1..Len(s) |-> Op(s[i])]

\* writeArtistsFile / writeReleasesFile: the entities in code, one after
\* the other, between the fixed head and tail of the file.
writeFile(collection, entities) ==
  IF collection = "artists" THEN MapSeq(artistToTS, entities)
                            ELSE MapSeq(releaseToTS, entities)

\* eval of the code of one entity: its fields, or a syntax error (None).
evalArtist(code) ==
  LET name == evalLiteral(code.name)
      description == evalLiteral(code.description)
  IN  IF name = None \/ description = None THEN None
      ELSE Some([id |-> code.id, name |-> Val(name), description |-> Val(description)])

evalRelease(code) ==
  LET title == evalLiteral(code.title)
      description == IF code.description = None THEN Some(None)
                     ELSE LET v == evalLiteral(Val(code.description))
                          IN  IF v = None THEN None ELSE Some(v)
  IN  IF title = None \/ description = None THEN None
      ELSE Some([id |-> code.id, title |-> Val(title), description |-> Val(description)])

\* parseArtistsFile / parseReleasesFile: eval of the array of the file; one
\* entity that does not parse makes the whole eval throw (None).
parseFile(collection, file) ==
  LET read == [i \in 1..Len(file) |->
                 IF collection = "artists" THEN evalArtist(file[i]) ELSE evalRelease(file[i])]
  IN  IF \E i \in 1..Len(file) : read[i] = None THEN None
      ELSE Some([i \in 1..Len(file) |-> Val(read[i])])

\* ----------------------------------------------- catalogue store round trip
\* The collections written: one artist or one release with every text of up
\* to MaxText characters in its free-text fields, and the empty collection.
ArtistLists ==
  {<<>>} \cup {<<[id |-> 1, name |-> n, description |-> d]>> :
                 n \in Texts(MaxText), d \in Texts(MaxText)}

ReleaseLists ==
  {<<>>} \cup {<<[id |-> 1, title |-> t, description |-> d]>> :
                 t \in Texts(MaxText), d \in {None} \cup {Some(x) : x \in Texts(MaxText)}}

\* writeArtistsFile(artists) / writeReleasesFile(releases)
writeAllCall(collection, entities) ==
  /\ catalogue = NoCatalogue
  /\ request = NoRequest
  /\ catalogue' = [catalogue EXCEPT ![collection].file = writeFile(collection, entities)]
  /\ result' = Some([op |-> "writeAll", collection |-> collection, written |-> entities])
  /\ UNCHANGED <<shared_links, nextId, now, creator, downloader,
                 pwOf, incsDone, overlap, everExpired, storage, caller, request>>

\* parseArtistsFile() / parseReleasesFile() right after the write.
readAllCall ==
  /\ result # None
  /\ Val(result).op = "writeAll"
  /\ result' = Some([op |-> "readAll", collection |-> Val(result).collection,
                     written |-> Val(result).written,
                     read |-> parseFile(Val(result).collection,
                                        catalogue[Val(result).collection].file)])
  /\ UNCHANGED <<shared_links, nextId, now, creator, downloader,
                 pwOf, incsDone, overlap, everExpired, storage, caller, catalogue, request>>

NextRoundTrip ==
  \/ \E entities \in ArtistLists : writeAllCall("artists", entities)
  \/ \E entities \in ReleaseLists : writeAllCall("releases", entities)
  \/ readAllCall

SpecRoundTrip == Init /\ [][NextRoundTrip]_vars

\* C20: for every collection of artists or releases, writeAll followed by
\* readAll yields the entities that were written, field for field, also
\* when their free-text fields hold double quotes and newlines.
C20_RoundTrip ==
  (result # None /\ Val(result).op = "readAll") =>
    Val(result).read = Some(Val(result).written)

\* --------------------------------------------------------- catalogue routes
MaxId == 3

\* Math.max(...ids, 0)
MaxOf(S) == CHOOSE x \in S \cup {0} : \A y \in S \cup {0} : y <= x

IdsOf(entities) == {entities[i].id : i \in 1..Len(entities)}

\* Mutant: the new id is the number of entities plus one.
nextEntityId_count(entities) == Len(entities) + 1

\* const maxId = Math.max(...entities.map((e) => e.id), 0); id = maxId + 1
nextEntityId(entities) == MaxOf(IdsOf(entities)) + 1

\* The body of a POST request, without its id.
NewEntity(collection, id) ==
  IF collection = "artists"
    THEN [id |-> id, name |-> <<"a">>, description |-> <<>>]
    ELSE [id |-> id, title |-> <<"a">>, description |-> None]

\* Data files with distinct ids: empty, one entity, two entities (artists
\* oldest first, releases newest first).
InitialEntities(collection) ==
  { <<>>,
    <<NewEntity(collection, 1)>>,
    IF collection = "artists"
      THEN <<NewEntity(collection, 1), NewEntity(collection, 2)>>
      ELSE <<NewEntity(collection, 2), NewEntity(collection, 1)>> }

InitCatalogue ==
  /\ shared_links = {}
  /\ nextId = 1
  /\ now = 0
  /\ creator = [c \in Creators |-> IdleCreator]
  /\ downloader = [d \in Downloaders |-> IdleDownloader]
  /\ result = None
  /\ pwOf = [i \in LinkIds |-> None]
  /\ incsDone = [i \in LinkIds |-> 0]
  /\ overlap = {}
  /\ everExpired = {}
  /\ storage = NewStorage("sftp")
  /\ caller = [p \in Callers |-> "idle"]
  /\ request = NoRequest
  /\ \E start \in [Collections -> UNION {InitialEntities(c) : c \in Collections}] :
       /\ \A c \in Collections : start[c] \in InitialEntities(c)
       /\ catalogue = [c \in Collections |->
                         [file |-> writeFile(c, start[c]), assigned |-> IdsOf(start[c])]]

\* POST /artists, POST /releases: 401 for a non-admin; otherwise the file is
\* parsed, the entity gets max id + 1, is pushed (artists) or unshifted
\* (releases), and the file is written; 500 when the parse or the write
\* throws. The code after the admin check has no await.
postEntity(collection, isAdmin, writeFails) ==
  LET parsed == parseFile(collection, catalogue[collection].file)
  IN  IF ~isAdmin
        THEN /\ result' = Some([op |-> "add", collection |-> collection, status |-> 401,
                                id |-> 0, reused |-> FALSE])
             /\ UNCHANGED catalogue
      ELSE IF parsed = None \/ writeFails
        THEN /\ result' = Some([op |-> "add", collection |-> collection, status |-> 500,
                                id |-> 0, reused |-> FALSE])
             /\ UNCHANGED catalogue
      ELSE LET entities == Val(parsed)
               id == nextEntityId(entities)
               new == NewEntity(collection, id)
               all == IF collection = "artists" THEN Append(entities, new)
                                                ELSE <<new>> \o entities
           IN  /\ id <= MaxId
               /\ catalogue' = [catalogue EXCEPT
                                  ![collection].file = writeFile(collection, all),
                                  ![collection].assigned = @ \cup {id}]
               /\ result' = Some([op |-> "add", collection |-> collection, status |-> 200,
                                  id |-> id,
                                  reused |-> id \in catalogue[collection].assigned])

\* DELETE /artists/:id, DELETE /releases/:id: the entity with the id is
\* filtered out and the file written; 404 when no entity has the id.
deleteEntity(collection, id, isAdmin, writeFails) ==
  LET parsed == parseFile(collection, catalogue[collection].file)
  IN  IF ~isAdmin
        THEN /\ result' = Some([op |-> "remove", collection |-> collection, status |-> 401,
                                id |-> id, reused |-> FALSE])
             /\ UNCHANGED catalogue
      ELSE IF parsed = None
        THEN /\ result' = Some([op |-> "remove", collection |-> collection, status |-> 500,
                                id |-> id, reused |-> FALSE])
             /\ UNCHANGED catalogue
      ELSE LET entities == Val(parsed)
               Other(e) == e.id # id
               kept == SelectSeq(entities, Other)
           IN  IF Len(kept) = Len(entities)
                 THEN /\ result' = Some([op |-> "remove", collection |-> collection,
                                         status |-> 404, id |-> id, reused |-> FALSE])
                      /\ UNCHANGED catalogue
               ELSE IF writeFails
                 THEN /\ result' = Some([op |-> "remove", collection |-> collection,
                                         status |-> 500, id |-> id, reused |-> FALSE])
                      /\ UNCHANGED catalogue
               ELSE /\ catalogue' = [catalogue EXCEPT
                                       ![collection].file = writeFile(collection, kept)]
                    /\ result' = Some([op |-> "remove", collection |-> collection,
                                       status |-> 200, id |-> id, reused |-> FALSE])

NextCatalogue ==
  /\ \/ \E c \in Collections, isAdmin \in BOOLEAN, f \in BOOLEAN : postEntity(c, isAdmin, f)
     \/ \E c \in Collections, id \in 1..MaxId, isAdmin \in BOOLEAN, f \in BOOLEAN :
          deleteEntity(c, id, isAdmin, f)
  /\ UNCHANGED <<shared_links, nextId, now, creator, downloader,
                 pwOf, incsDone, overlap, everExpired, storage, caller, request>>

SpecCatalogue == InitCatalogue /\ [][NextCatalogue]_vars

FileIds(file) == {file[i].id : i \in 1..Len(file)}

DistinctIds(file) ==
  \A i \in 1..Len(file), j \in 1..Len(file) : file[i].id = file[j].id => i = j

\* The step adds an entity to the collection.
Adds(c) == Len(catalogue'[c].file) = Len(catalogue[c].file) + 1

\* C19 as stated: in each collection the ids stay pairwise distinct, a new
\* entity receives max existing id + 1, and the ids assigned to successive
\* new entities are strictly increasing: an id once assigned is never
\* assigned again.
C19_IdsNeverReused ==
  [][ \A c \in Collections :
        /\ DistinctIds(catalogue'[c].file)
        /\ Adds(c) =>
             /\ FileIds(catalogue'[c].file) \ FileIds(catalogue[c].file)
                  = {MaxOf(FileIds(catalogue[c].file)) + 1}
             /\ \A a \in catalogue[c].assigned :
                  a < MaxOf(FileIds(catalogue[c].file)) + 1
    ]_vars

\* C19, amended: in each collection the ids stay pairwise distinct and an
\* add stores exactly one new id, max existing id + 1 (1 in an empty
\* collection), next to the ids that were stored.
C19_IdsDistinctMaxPlusOne ==
  [][ \A c \in Collections :
        /\ DistinctIds(catalogue'[c].file)
        /\ Adds(c) =>
             /\ FileIds(catalogue'[c].file) \ FileIds(catalogue[c].file)
                  = {MaxOf(FileIds(catalogue[c].file)) + 1}
             /\ FileIds(catalogue[c].file) \subseteq FileIds(catalogue'[c].file)
    ]_vars

\* An add has given a new entity an id that an earlier, since deleted,
\* entity had.
C19_Witness ==
  /\ result # None
  /\ Val(result).op = "add"
  /\ Val(result).status = 200
  /\ Val(result).reused
  /\ \E i \in 1..Len(catalogue[Val(result).collection].file) :
       catalogue[Val(result).collection].file[i].id = Val(result).id

\* -------------------------------------------------------------- disconnect
\* C21: disconnect() is idempotent: on a client that is not connected it
\* does nothing, and any number of calls, in sequence or concurrently, on a
\* connected client release the underlying connection exactly once per
\* established connection.
C21_ReleasedOnce ==
  storage.releases <= 1

\* --------------------------------------------------------- failed handshake
\* A step in which the handshake of caller p fails.
HandshakeFails(p) ==
  caller[p] = "handshake" /\ caller'[p] \in {"wake_err", "failed"}

\* A step in which caller p enters connect().
EntersConnect(p) ==
  /\ caller[p] \in AtRest
  /\ caller'[p] # caller[p]
  /\ caller'[p] \in {"reused", "waiting", "handshake"}

\* C23: when a connection attempt fails, connect() propagates the error to
\* the caller that started it and to every caller awaiting it; afterwards
\* connected is false and the in-flight marker is cleared, so the next
\* connect() starts a fresh handshake.
C23_FailureClearsAttempt ==
  [][\A p \in Callers :
       /\ HandshakeFails(p) =>
            /\ ~storage'.connected
            /\ ~storage'.connecting
            /\ \A q \in Callers :
                 caller[q] = "waiting" => caller'[q] = "wake_err"
       /\ (caller[p] = "wake_err" /\ caller'[p] # "wake_err") =>
            caller'[p] = "failed"
       /\ (EntersConnect(p) /\ ~storage.connected /\ ~storage.connecting) =>
            /\ caller'[p] = "handshake"
            /\ storage'.handshakes = storage.handshakes + 1]_vars

C23_Witness ==
  /\ ~storage.connected
  /\ ~storage.connecting
  /\ \E p, q \in Callers :
       p # q /\ caller[p] = "wake_err" /\ caller[q] = "wake_err"

\* ----------------------------------------------------------- lost connection
\* C30: connected is true only while the underlying connection is open: when
\* the connection is lost after a successful connect(), the flag is reset,
\* so that the next connect() re-establishes the connection.
C30_FlagFollowsConnection ==
  storage.connected => storage.open

\* ------------------------------------------------------------- lost update
\* Two download requests that both came back from incrementDownloadCount
\* without error, for the same token, having read the same count.
BothIncremented(d, e) ==
  /\ d # e
  /\ downloader[d].pc = "send"
  /\ downloader[e].pc = "send"
  /\ downloader[d].token = downloader[e].token
  /\ downloader[d].current = downloader[e].current

\* C22: two concurrent incrementDownloadCount calls on one link can
\* interleave so that both return without error while download_count grew
\* by one only: whenever both calls read the same count and both wrote, the
\* row holds that count plus one, and such a state is reachable.
C22_LostUpdate ==
  \A d, e \in Downloaders :
    BothIncremented(d, e) =>
      \A r \in shared_links :
        r.token = Val(downloader[d].token) =>
          r.download_count = Val(downloader[d].current) + 1

C22_Witness ==
  \E d, e \in Downloaders :
    /\ BothIncremented(d, e)
    /\ \E r \in shared_links :
         /\ r.token = Val(downloader[d].token)
         /\ r.download_count = Val(downloader[d].current) + 1
         /\ incsDone[r.id] >= 2

\* ------------------------------------------------------------ expiry stored
\* C24: createShareLink with a TTL supplied stores now + TTL as the expiry,
\* for every supplied TTL, positive, zero or negative; it stores no expiry
\* only when no TTL is supplied.
C24_ExpiryForEveryTtl ==
  [][\A c \in Creators :
       (creator[c].pc = "lookup" /\ creator'[c].pc = "insert") =>
         LET ttl == Val(creator[c].options).expiresIn
         IN  creator'[c].expiresAt =
               IF IsSome(ttl) THEN Some(now + Val(ttl)) ELSE None]_vars

\* --------------------------------------- concurrent catalogue write requests
\* A catalogue write request in its handler. status 0: it awaits
\* verifyAdmin, and seen is the data file as it was when the request
\* arrived; otherwise status is the status of the response, and raced tells
\* whether the data file changed between the arrival and the handling.
CatalogueRequest(op, collection, id, seen) ==
  [op |-> op, collection |-> collection, id |-> id, seen |-> seen,
   status |-> 0, raced |-> FALSE]

\* An add request arrives while the ids assigned are below this bound.
MaxRacedId == 2

\* No add has been written to the collection.
Untouched(c) == catalogue[c].assigned = {}

\* A POST or DELETE request enters its handler, up to `await verifyAdmin`.
\* The write requests of a run are all on one collection: the one of the
\* request in progress, and the one that has been written to.
catalogueArrive(p) ==
  /\ request[p] = None
  /\ \E op \in {"add", "remove"}, c \in Collections, id \in 0..MaxId :
       /\ (op = "add") = (id = 0)
       /\ \A q \in Callers :
            request[q] # None => Val(request[q]).collection = c
       /\ \A other \in Collections \ {c} : Untouched(other)
       /\ op = "add" => MaxOf(catalogue[c].assigned) < MaxRacedId
       /\ request' = [request EXCEPT ![p] =
                        Some(CatalogueRequest(op, c, id, catalogue[c].file))]
  /\ UNCHANGED <<catalogue, result>>

\* The response of a handled request.
Answered(r, status, raced) ==
  Some([r EXCEPT !.status = status, !.raced = raced, !.seen = <<>>])

\* Mutant: the handler writes what it derives from the data file as it was
\* when the request arrived.
catalogueHandle_staleRead(p, isAdmin, writeFails) ==
  /\ request[p] # None
  /\ Val(request[p]).status = 0
  /\ LET r == Val(request[p])
         entities == Val(parseFile(r.collection, r.seen))
         Other(e) == e.id # r.id
         new == NewEntity(r.collection, nextEntityId(entities))
         all == IF r.op = "remove" THEN SelectSeq(entities, Other)
                ELSE IF r.collection = "artists" THEN Append(entities, new)
                ELSE <<new>> \o entities
     IN  /\ parseFile(r.collection, r.seen) # None
         /\ isAdmin /\ ~writeFails
         /\ nextEntityId(entities) <= MaxId
         /\ catalogue' = [catalogue EXCEPT
                            ![r.collection].file = writeFile(r.collection, all)]
         /\ result' = Some([op |-> r.op, collection |-> r.collection, status |-> 200,
                            id |-> r.id, reused |-> FALSE])
         /\ request' = [request EXCEPT ![p] =
                          Answered(r, 200, r.seen # catalogue[r.collection].file)]

\* The continuation of `await verifyAdmin`: the rest of the handler, which
\* reads the data file, changes the list and writes the file without
\* another await, and sends the response.
catalogueHandle(p, isAdmin, writeFails) ==
  /\ request[p] # None
  /\ Val(request[p]).status = 0
  /\ LET r == Val(request[p])
     IN  /\ IF r.op = "add"
              THEN postEntity(r.collection, isAdmin, writeFails)
              ELSE deleteEntity(r.collection, r.id, isAdmin, writeFails)
         /\ request' = [request EXCEPT ![p] =
                          Answered(r, Val(result').status,
                                   r.seen # catalogue[r.collection].file)]

\* The request is over.
catalogueDone(p) ==
  /\ request[p] # None
  /\ Val(request[p]).status # 0
  /\ request' = [request EXCEPT ![p] = None]
  /\ UNCHANGED <<catalogue, result>>

NextCatalogueRace ==
  /\ \/ \E p \in Callers : catalogueArrive(p)
     \/ \E p \in Callers, isAdmin \in BOOLEAN, f \in BOOLEAN : catalogueHandle(p, isAdmin, f)
     \/ \E p \in Callers : catalogueDone(p)
  /\ UNCHANGED <<shared_links, nextId, now, creator, downloader,
                 pwOf, incsDone, overlap, everExpired, storage, caller>>

\* Both data files hold no entity.
InitCatalogueRace ==
  /\ InitCatalogue
  /\ \A c \in Collections : Untouched(c)

SpecCatalogueRace == InitCatalogueRace /\ [][NextCatalogueRace]_vars

\* Two add requests on the same collection await verifyAdmin at the same
\* time.
PendingAdds(p, q) ==
  /\ p # q
  /\ request[p] # None
  /\ request[q] # None
  /\ Val(request[p]).status = 0
  /\ Val(request[q]).status = 0
  /\ Val(request[p]).op = "add"
  /\ Val(request[q]).op = "add"

\* C25 as stated: two concurrent catalogue write requests on the same
\* collection can interleave their whole-file read and write so that one
\* request's change is lost: from a state where two adds are in progress,
\* both can be handled with success, one after the other, and leave fewer
\* than two entities more in the data file.
C25_ChangeCanBeLost ==
  \A p, q \in Callers :
    PendingAdds(p, q) =>
      \E n \in 0..MaxId :
        /\ n = Len(catalogue[Val(request[p]).collection].file)
        /\ ENABLED (/\ catalogueHandle(p, TRUE, FALSE)
                    /\ Val(request'[p]).status = 200
                    /\ (ENABLED (/\ catalogueHandle(q, TRUE, FALSE)
                                 /\ Val(request'[q]).status = 200
                                 /\ Len(catalogue'[Val(request[q]).collection].file)
                                      < n + 2))')

\* C25, amended: the handlers of two concurrent catalogue write requests
\* run one after the other from the admin check on, so every write keeps
\* the changes written before it: a write adds exactly one entity to the
\* entities in the data file, or removes exactly one of them.
C25_WritesKeepEarlierChanges ==
  [][\A c \in Collections :
       catalogue'[c].file # catalogue[c].file =>
         LET before == FileIds(catalogue[c].file)
             after == FileIds(catalogue'[c].file)
         IN  \/ \E i \in after \ before : after = before \cup {i}
             \/ \E i \in before \ after : after = before \ {i}]_vars

\* A request was handled with success after another request's write had
\* landed during its admin check.
C25_Witness ==
  \E p \in Callers :
    /\ request[p] # None
    /\ Val(request[p]).status = 200
    /\ Val(request[p]).raced

\* ------------------------------------------------- order of a download request
\* The step changes download_count or last_accessed_at of a row holding the
\* token.
Accessed(token) ==
  \E r \in shared_links, s \in shared_links' :
    /\ r.id = s.id
    /\ r.token = token
    /\ \/ r.download_count # s.download_count
       \/ r.last_accessed_at # s.last_accessed_at

\* C26: a download request changes download_count and last_accessed_at of
\* its link only after validateShareLink has answered valid and the file has
\* been fetched; a request answered 403, or 500 because the fetch failed,
\* leaves the link records unchanged; the file is sent only after
\* incrementDownloadCount has returned without error.
C26_IncrementAfterFetchBeforeSend ==
  [][/\ \A token \in RequestTokens :
          Accessed(token) =>
            \E d \in Downloaders :
              /\ downloader[d].pc = "incr_write"
              /\ downloader[d].token = Some(token)
              /\ downloader[d].link # None
              /\ downloader'[d].pc = "send"
     /\ \A d \in Downloaders :
          /\ (downloader[d].pc \in {"idle", "fetch"}
                /\ downloader'[d].pc \in {"rejected", "failed"}) =>
               shared_links' = shared_links
          /\ (downloader[d].pc # "send" /\ downloader'[d].pc = "send") =>
               /\ downloader[d].pc = "incr_write"
               /\ \A r \in shared_links' :
                    r.token = Val(downloader[d].token) =>
                      /\ r.download_count = Val(downloader[d].current) + 1
                      /\ r.last_accessed_at = Some(now)]_vars

C26_Witness ==
  \E d \in Downloaders :
    /\ downloader[d].pc = "send"
    /\ \E r \in shared_links :
         /\ Some(r.id) = downloader[d].link
         /\ r.download_count = Val(downloader[d].current) + 1
         /\ IsSome(r.last_accessed_at)

\* ----------------------------------------------------- files served per link
\* C28: for a link with max_downloads = m, the number of download requests
\* that are served the file (the requests whose increment has returned, and
\* which then send the file) never exceeds m, under every interleaving.
C28_ServedWithinMax ==
  \A r \in shared_links :
    IsSome(r.max_downloads) => incsDone[r.id] <= Val(r.max_downloads)

\* ----------------------------------------------------------------- revocation
\* The link of download request d has been deactivated: only
\* deactivateShareLink, which acts for the creator alone, clears is_active.
Revoked(d) ==
  \E r \in shared_links : Some(r.id) = downloader[d].link /\ ~r.is_active

\* C29: once a deactivate or a delete by the creator has completed, no
\* download request delivers the file of the link afterwards, including a
\* request that had passed validateShareLink before: no request goes on to
\* send the file from a state in which its link is revoked.
C29_RevocationStopsInFlight ==
  [][\A d \in Downloaders :
       (downloader[d].pc = "incr_write" /\ downloader'[d].pc = "send") =>
         ~Revoked(d)]_vars

\* ------------------------------------------ routes using the storage client
\* The routes that call a remote operation on the shared O2SwitchStorage
\* instance, and the operation each one calls first.
RemoteCall(route) ==
  CASE route = "admin-list" -> "listAdminFiles"
    [] route = "admin-upload" -> "uploadFile"
    [] route = "admin-stream" -> "downloadAdminFile"
    [] route = "admin-download" -> "downloadAdminFile"
    [] route = "admin-delete" -> "deleteAdminFile"
    [] route = "admin-create-folder" -> "createAdminDirectory"
    [] route = "admin-search" -> "searchAdminFiles"
    [] route = "shared-download" -> "downloadAdminFile"
    [] route = "public-upload" -> "uploadFile"

StorageRoutes ==
  {"admin-list", "admin-upload", "admin-stream", "admin-download", "admin-delete",
   "admin-create-folder", "admin-search", "shared-download", "public-upload"}

\* The routes whose handler awaits storage.connect() before the operation.
ConnectsFirst == {"admin-list", "public-upload"}

\* A request enters the handler of a route and reaches its first use of the
\* storage client.
routeArrive(p, route) ==
  /\ request[p] = None
  /\ caller[p] \in AtRest
  /\ request' = [request EXCEPT ![p] = Some([route |-> route, stage |-> "arrived"])]
  /\ UNCHANGED <<storage, caller, result>>

\* await storage.connect(), in the routes that have it.
routeConnect(p) ==
  /\ request[p] # None
  /\ Val(request[p]).stage = "arrived"
  /\ Val(request[p]).route \in ConnectsFirst
  /\ connectCall(p)
  /\ request' = [request EXCEPT ![p] = Some([Val(@) EXCEPT !.stage = "connect"])]
  /\ UNCHANGED result

\* The remote operation is called on the client: at once in the routes
\* without connect(), after connect() has returned in the others. connected
\* is the flag of the client at the time of the call.
routeOperate(p) ==
  /\ request[p] # None
  /\ LET r == Val(request[p])
     IN  /\ IF r.route \in ConnectsFirst
              THEN r.stage = "connect" /\ caller[p] \in {"reused", "connected"}
              ELSE r.stage = "arrived"
         /\ result' = Some([op |-> "remote", route |-> r.route,
                            call |-> RemoteCall(r.route),
                            connected |-> storage.connected])
  /\ request' = [request EXCEPT ![p] = None]
  /\ UNCHANGED <<storage, caller>>

\* connect() has thrown: the catch block answers 500 and no operation is
\* called.
routeFail(p) ==
  /\ request[p] # None
  /\ Val(request[p]).stage = "connect"
  /\ caller[p] = "failed"
  /\ request' = [request EXCEPT ![p] = None]
  /\ result' = Some([op |-> "error", route |-> Val(request[p]).route,
                     call |-> "", connected |-> storage.connected])
  /\ UNCHANGED <<storage, caller>>

\* The server after its start: the shared client is new, no request.
InitRoutes ==
  /\ InitConn
  /\ storage = NewStorage("sftp")

NextRoutes ==
  /\ \/ \E p \in Callers, route \in StorageRoutes : routeArrive(p, route)
     \/ \E p \in Callers : routeConnect(p)
     \/ \E p \in Callers, ok \in BOOLEAN :
          handshakeSettle(p, ok) /\ UNCHANGED <<request, result>>
     \/ \E p \in Callers : connectResume(p) /\ UNCHANGED <<request, result>>
     \/ \E p \in Callers : routeOperate(p)
     \/ \E p \in Callers : routeFail(p)
     \/ connectionLost /\ UNCHANGED <<request, result>>
  /\ UNCHANGED <<shared_links, nextId, now, creator, downloader,
                 pwOf, incsDone, overlap, everExpired, catalogue>>

SpecRoutes == InitRoutes /\ [][NextRoutes]_vars

\* C27: every remote operation a route calls on the shared storage client
\* is called while the client is connected: on every path through the
\* shared-download, admin-storage and upload routes a connect() has
\* completed with success before the first operation.
C27_OperationsWhileConnected ==
  (result # None /\ Val(result).op = "remote") => Val(result).connected

=============================================================================
